---- MODULE Spec2Model ----
(***************************************************************************)
(* Model of the pymkm Cardmarket client: the paginated fetches of          *)
(* pymkm/pymkmapi.py (get_stock, get_orders, get_articles,                 *)
(* find_user_articles) and the foil pricing of pymkm_app.py.               *)
(*                                                                         *)
(* A paginated fetch is a chain of recursive invocations.  One action is   *)
(* one invocation: it sends one request, receives the server's response    *)
(* and either returns, raises, or calls itself again with a new start.     *)
(* The pages held by the enclosing invocations (the left operands of the   *)
(* pending `page + self.get_x(...)` expressions) are kept in `acc`.        *)
(***************************************************************************)
EXTENDS Integers, Sequences, FiniteSets, TLC

\* ---------------------------------------------------------------- bounds
\* largest resource / declared total, in pages
MaxPages == 2
\* longest body the unconstrained server puts in one response
MaxBody == 1
\* foil pricing: most listings of a product, highest listing price and largest
\* rounding limit (prices and limits in whole currency units)
MaxListings == 3
MaxPrice == 5
MaxStep == 3
\* repricing: most entries of the stock, and highest price of an entry
MaxStock == 2
MaxQuote == 2
\* batch write: most full chunks of a payload
MaxChunks == 2
\* requests after which an unfinished fetch is no longer followed
MaxRequests == MaxPages + 3

\* ------------------------------------------------------ program constants
ok == 200
no_content == 204
partial_content == 206
temporary_redirect == 307
bad_request == 400
not_found == 404
\* page size of get_articles / find_user_articles
INCREMENT == 1000
\* page size of get_stock / get_orders
STOCK_INCREMENT == 100

\* Python's None for the `start` parameter
None == 0 - 1

Fetches == {"get_stock", "get_orders", "get_articles", "find_user_articles"}

PageSize(f) == IF f \in {"get_stock", "get_orders"} THEN STOCK_INCREMENT ELSE INCREMENT

\* ---------------------------------------------------------------- state
VARIABLES
    server,     \* "any": answers are unconstrained; "paged": serves a resource of N records
    N,          \* number of records of the served resource ("paged")
    fn,         \* the fetch that was called
    pc,         \* "call": an invocation is about to send its request; "done"
    start0,     \* the `start` argument of the caller's invocation
    start,      \* the `start` argument of the pending invocation (None or an offset)
    depth,      \* number of enclosing invocations waiting in `page + <recursive call>`
    acc,        \* concatenation of the pages held by those enclosing invocations
    outcome,    \* "pending", "list", "json", "None" or the name of the exception raised
    result,     \* the records returned to the caller of the fetch
    nreq,       \* requests sent so far
    nretry,     \* recursive calls made because of a Temporary redirect
    last,       \* the last request and its response
    prev,       \* acc before the last response was processed
    uniform,    \* the <<status, hasRange, total>> of the first response, and whether
                \* every response so far has had the same
    pricing,    \* foil pricing: "none", "ready" (inputs drawn), "returned" or "raised"
    listings,   \* foil pricing: the articles get_articles returned for the product
    step,       \* foil pricing: the rounding limit of the rarity
    price,      \* foil pricing: the price get_foil_price returned
    config,     \* product pricing: config['price_limit_by_rarity'], rarity key -> limit
    rarity,     \* product pricing: the rarity string of the product
    is_foil,    \* product pricing: whether the article is a foil
    trend,      \* product pricing: priceGuide TREND of the product
    gateway,    \* product pricing: "up", or "down" when the single-page reads fail
    calls,      \* product pricing: the Gateway operations invoked, in order
    stock,      \* repricing: stock_list, the user's stock entries
    index,      \* repricing: entries the loop of calculate_new_prices_for_stock has processed
    result_json, \* repricing: the PriceChanges collected so far
    total_price, \* repricing: the running total
    rphase,     \* repricing: "none"; of update_stock_prices_to_trend "loop", "returned",
                \* "raised", "updated", "failed", "declined", "nothing"; of
                \* update_product_to_trend "product", "product_raised", "product_nothing",
                \* "product_updated", "product_failed", "product_declined"; of
                \* clear_entire_stock "clear", "cleared", "clear_raised", "aborted"
    answer,     \* repricing: the user's answer to the confirmation prompt ("none": not asked)
    gw,         \* repricing: the Gateway operations invoked, in order
    wfn,        \* batch write: the function called
    payload0,   \* batch write: the payload as the caller built it
    payload,    \* batch write: the payload list, whose entries are cleaned in place
    chunked_list, \* batch write: the chunks of the payload
    sent,       \* batch write: the requests made, each with its data and the response's status
    woutcome    \* batch write: "none", "called", "pending", or how the call ended

fetchVars == <<server, N, fn, start0, pc, start, depth, acc, outcome, result, nreq, nretry, last, prev, uniform>>
foilVars == <<pricing, listings, step, price>>
priceVars == <<config, rarity, is_foil, trend, gateway, calls>>
stockVars == <<stock, index, result_json, total_price, rphase, answer, gw>>
writeVars == <<wfn, payload0, payload, chunked_list, sent, woutcome>>
vars == <<server, N, fn, start0, pc, start, depth, acc, outcome, result, nreq, nretry, last, prev, uniform,
          pricing, listings, step, price, priceVars, stockVars, writeVars>>

\* no product is being priced
NoProduct ==
    /\ config = <<>> /\ rarity = "" /\ is_foil = FALSE /\ trend = 0
    /\ gateway = "up" /\ calls = <<>>

\* no repricing pass is running
NoStock ==
    /\ stock = <<>> /\ index = 0 /\ result_json = <<>> /\ total_price = 0
    /\ rphase = "none" /\ answer = "none" /\ gw = <<>>

\* no batch write is running
NoWrite ==
    /\ wfn = "none" /\ payload0 = <<>> /\ payload = <<>>
    /\ chunked_list = <<>> /\ sent = <<>> /\ woutcome = "none"

\* ------------------------------------------------------------ the server
Min(a, b) == IF a < b THEN a ELSE b
Max(a, b) == IF a > b THEN a ELSE b

Response(st, hr, tot, bd) == [status |-> st, hasRange |-> hr, total |-> tot, body |-> bd]

NoResponse == Response(0, FALSE, 0, <<>>)

\* the offset a request carries: get_stock/get_orders put `start` in the URL
\* only when it is truthy, get_articles/find_user_articles send the parameter
\* only when start > 0; otherwise the request carries no offset (None)
Offset(s) == IF s = None \/ s = 0 THEN None ELSE s

\* records lo .. lo+size-1 of a resource of n records (records are numbered from 1)
Page(n, lo, size) ==
    IF lo > n THEN <<>> ELSE [i \in 1 .. Min(size, n - lo + 1) |-> lo + i - 1]

\* a body of len records, fresh for the k-th request
Body(k, len) == [i \in 1 .. len |-> (k - 1) * MaxBody + i]

Totals(f) == { k * PageSize(f) + d : k \in 0 .. MaxPages, d \in {0, 1} }

Statuses == {ok, no_content, partial_content, temporary_redirect, bad_request, not_found, 500}

\* only OK and Partial content carry records; a redirect carries no Content-Range
BodyLens(st) == IF st \in {ok, partial_content} THEN 0 .. MaxBody ELSE {0}

Ranges(f, st) ==
    {<<FALSE, 0>>} \cup (IF st = temporary_redirect THEN {} ELSE {<<TRUE, t>> : t \in Totals(f)})

AnyResponses(f, k) ==
    UNION { { Response(st, rg[1], rg[2], Body(k, len)) : rg \in Ranges(f, st), len \in BodyLens(st) } :
            st \in Statuses }

\* the paged server: the stock and order resources redirect a request that
\* carries no offset and serve records s .. s+99 at offset s >= 1; the article
\* resources serve records s+1 .. s+1000 at offset s >= 0.  Every page is
\* Partial content with the total N.
PagedResponse(f, o) ==
    IF f \in {"get_stock", "get_orders"}
    THEN IF o = None
         THEN Response(temporary_redirect, FALSE, 0, <<>>)
         ELSE Response(partial_content, TRUE, N, Page(N, o, STOCK_INCREMENT))
    ELSE Response(partial_content, TRUE, N, Page(N, (IF o = None THEN 0 ELSE o) + 1, INCREMENT))

Responses ==
    IF server = "paged" THEN {PagedResponse(fn, Offset(start))} ELSE AnyResponses(fn, nreq + 1)

\* --------------------------------------------------- PyMkmApi's helpers
\* __handle_response: "True", "False" or the exception it raises
handle_response(r) ==
    IF r.status \in {ok, partial_content, temporary_redirect} THEN "True"
    ELSE IF r.status = no_content THEN "CardmarketError"
    ELSE IF r.status = bad_request THEN "CardmarketError"
    ELSE IF r.status = not_found THEN "False"
    ELSE "ConnectionError"

\* mkm_request: the response, or None (NoResponse) when __handle_response
\* raised, as every exception is caught and only logged
mkm_request(r) ==
    IF handle_response(r) \in {"True", "False"} THEN r ELSE NoResponse

\* __get_max_items_from_header: the total of Content-Range, 0 without the header
get_max_items_from_header(r) == IF r.hasRange THEN r.total ELSE 0

\* bool(response): requests.Response.__bool__ is `ok`, status below 400
Truthy(r) == r.status < 400

\* ------------------------------------------------- ends of an invocation
Sent(r) ==
    /\ nreq' = nreq + 1
    /\ last' = [start |-> start, resp |-> r]
    /\ prev' = acc
    /\ uniform' = IF nreq = 0
                  THEN [hdr |-> <<r.status, r.hasRange, r.total>>, same |-> TRUE]
                  ELSE [uniform EXCEPT !.same = @ /\ uniform.hdr = <<r.status, r.hasRange, r.total>>]
    /\ UNCHANGED <<server, N, fn, start0>> /\ UNCHANGED <<foilVars, priceVars, stockVars, writeVars>>

\* `return v` with v a list: every enclosing invocation returns page + v
Return(v) ==
    /\ pc' = "done" /\ outcome' = "list" /\ result' = acc \o v
    /\ UNCHANGED <<start, depth, acc, nretry>>

Raise(e) ==
    /\ pc' = "done" /\ outcome' = e /\ result' = <<>>
    /\ UNCHANGED <<start, depth, acc, nretry>>

\* falling off the end returns None; an enclosing `page + None` is a TypeError
ReturnNone == IF depth = 0
              THEN /\ pc' = "done" /\ outcome' = "None" /\ result' = <<>>
                   /\ UNCHANGED <<start, depth, acc, nretry>>
              ELSE Raise("TypeError")

\* `return r.json()`: the whole document, not a list
ReturnJson(v) == IF depth = 0
                 THEN /\ pc' = "done" /\ outcome' = "json" /\ result' = v
                      /\ UNCHANGED <<start, depth, acc, nretry>>
                 ELSE Raise("TypeError")

\* `return page + self.f(next)`
Recurse(page, next) ==
    /\ pc' = "call" /\ start' = next /\ acc' = acc \o page /\ depth' = depth + 1
    /\ UNCHANGED <<outcome, result, nretry>>

\* `return self.f(1)` after a Temporary redirect
Retry ==
    /\ pc' = "call" /\ start' = 1 /\ nretry' = nretry + 1
    /\ UNCHANGED <<depth, acc, outcome, result>>

\* ------------------------------------------------------------ the fetches
\* variants of the test below: stopping at the total itself, and one page late
StockExceeded_inclusive(s, max_items) == s >= max_items
StockExceeded_late(s, max_items) == s > max_items + STOCK_INCREMENT
\* get_stock line 300, get_orders line 546: `start > max_items`
StockExceeded(s, max_items) == s > max_items

get_stock ==
    /\ fn = "get_stock" /\ pc = "call" /\ nreq < MaxRequests
    /\ \E resp \in Responses :
        /\ Sent(resp)
        /\ LET r == mkm_request(resp)
               max_items == get_max_items_from_header(r)
           IN  IF r = NoResponse THEN Raise("AttributeError")
               ELSE IF r.status = temporary_redirect THEN Retry
               ELSE IF start # None /\ (StockExceeded(start, max_items) \/ r.status = no_content)
                    THEN Return(<<>>)
               ELSE IF start # None /\ r.status = partial_content
                    THEN Recurse(r.body, start + STOCK_INCREMENT)
               ELSE IF Truthy(r) THEN Return(r.body)
               ELSE ReturnNone

get_orders ==
    /\ fn = "get_orders" /\ pc = "call" /\ nreq < MaxRequests
    /\ \E r \in Responses :
        /\ Sent(r)
        /\ LET max_items == get_max_items_from_header(r)
           IN  IF r.status = temporary_redirect THEN Retry
               ELSE IF start # None /\ (StockExceeded(start, max_items) \/ r.status = no_content)
                    THEN Return(<<>>)
               ELSE IF start # None /\ r.status = partial_content
                    THEN Recurse(r.body, start + STOCK_INCREMENT)
               ELSE IF handle_response(r) = "True" THEN ReturnJson(r.body)
               ELSE IF handle_response(r) = "False" THEN ReturnNone
               ELSE Raise(handle_response(r))

\* variant of the test below: stopping one record early
LastPage_early(s, max_items) == s + INCREMENT + 1 >= max_items
\* get_articles line 401, find_user_articles line 482
LastPage(s, max_items) == s + INCREMENT >= max_items

get_articles ==
    /\ fn = "get_articles" /\ pc = "call" /\ nreq < MaxRequests
    /\ \E r \in Responses :
        /\ Sent(r)
        /\ IF r.status = partial_content
           THEN IF ~r.hasRange THEN Raise("KeyError")
                ELSE IF LastPage(start, get_max_items_from_header(r))
                        /\ handle_response(r) = "True"
                     THEN Return(r.body)
                     ELSE Recurse(r.body, start + INCREMENT)
           ELSE IF r.status = no_content THEN Raise("CardmarketError")
           ELSE IF r.status = ok THEN Return(r.body)
           ELSE Raise("ConnectionError")

find_user_articles ==
    /\ fn = "find_user_articles" /\ pc = "call" /\ nreq < MaxRequests
    /\ \E r \in Responses :
        /\ Sent(r)
        /\ IF r.status = partial_content
           THEN IF ~r.hasRange THEN Raise("KeyError")
                ELSE IF LastPage(start, get_max_items_from_header(r))
                        /\ handle_response(r) = "True"
                     THEN Return(r.body)
                     ELSE Recurse(r.body, start + INCREMENT)
           ELSE IF r.status = no_content THEN Raise("CardmarketError")
           ELSE IF r.status = ok THEN Return(r.body)
           ELSE IF r.status = bad_request THEN Raise("CardmarketError")
           ELSE Raise("ConnectionError")

\* ------------------------------------------------------- specifications
\* the start a caller passes: get_stock and get_orders default to None,
\* get_articles and find_user_articles to 0
Starts(f) == IF f \in {"get_stock", "get_orders"} THEN {None, 0, 1} ELSE {0}

InitCall ==
    /\ fn \in Fetches /\ start0 \in Starts(fn) /\ start = start0
    /\ pc = "call" /\ depth = 0 /\ acc = <<>>
    /\ outcome = "pending" /\ result = <<>>
    /\ nreq = 0 /\ nretry = 0
    /\ last = [start |-> None, resp |-> NoResponse] /\ prev = <<>>
    /\ uniform = [hdr |-> <<0, FALSE, 0>>, same |-> TRUE]

NoFoil == pricing = "none" /\ listings = <<>> /\ step = 0 /\ price = 0

Init == server = "any" /\ N = 0 /\ InitCall /\ NoFoil /\ NoProduct /\ NoStock /\ NoWrite

Next == get_stock \/ get_orders \/ get_articles \/ find_user_articles

Spec == Init /\ [][Next]_vars

\* the same fetches against the paged server, for every resource size up to
\* MaxPages full pages and one record
InitPaged ==
    /\ server = "paged" /\ InitCall /\ NoFoil /\ NoProduct /\ NoStock /\ NoWrite
    /\ N \in 0 .. MaxPages * PageSize(fn) + 1

SpecPaged == InitPaged /\ [][Next]_vars

\* ---------------------------------------------------------- foil pricing
\* Prices are exact: a value is a whole number of ticks, Unit ticks to the
\* currency unit, so that the halving of the median, the division by 4 and
\* the factor 1.2 = 6/5 of get_foil_price lose nothing.
Unit == 2 * 4 * 5

\* the acting account, api.get_account()['account']
account == [country |-> "home", username |-> "me"]

Countries == {"home", "abroad"}
Sellers == {"me", "other"}
Prices == { k * Unit : k \in 1 .. MaxPrice }
Steps == { k * Unit : k \in 1 .. MaxStep }
Articles == [price : Prices, country : Countries, seller : Sellers]

\* PyMkmHelper.round_up_to_limit: ceil(price / limit) * limit
round_up_to_limit(limit, p) == ((p + limit - 1) \div limit) * limit

\* PyMkmHelper.round_down_to_limit: floor(price / limit) * limit
round_down_to_limit(limit, p) == (p \div limit) * limit

RECURSIVE Insert(_, _)
Insert(sorted, x) ==
    IF sorted = <<>> THEN <<x>>
    ELSE IF x <= Head(sorted) THEN <<x>> \o sorted
    ELSE <<Head(sorted)>> \o Insert(Tail(sorted), x)

RECURSIVE Sorted(_)
Sorted(ps) == IF ps = <<>> THEN <<>> ELSE Insert(Sorted(Tail(ps)), Head(ps))

PriceColumn(table) == [i \in 1 .. Len(table) |-> table[i].price]

\* PyMkmHelper.calculate_median over the price values: the middle element,
\* or the average of the two middle elements
calculate_median(table) ==
    LET ps == Sorted(PriceColumn(table))
        n == Len(ps)
    IN  IF n % 2 = 1 THEN ps[(n + 1) \div 2] ELSE (ps[n \div 2] + ps[n \div 2 + 1]) \div 2

\* PyMkmHelper.calculate_lowest: the minimum of the price values
calculate_lowest(table) ==
    LET ps == PriceColumn(table)
    IN  CHOOSE x \in {ps[i] : i \in 1 .. Len(ps)} : \A i \in 1 .. Len(ps) : x <= ps[i]

\* variant of the test below: any seller of the country counts as local
IsLocal_country(article) == article.country = account.country
\* get_foil_price lines 425-428
IsLocal(article) == article.country = account.country /\ article.seller # account.username

local_articles(foil_articles) == SelectSeq(foil_articles, IsLocal)

\* variants of the line below: no step taken off, no floor of one rounding limit
Undercut_nostep(rounding_limit, median_guided, lowest_in_country) ==
    Max(rounding_limit, Min(median_guided, lowest_in_country))
Undercut_nofloor(rounding_limit, median_guided, lowest_in_country) ==
    Min(median_guided, lowest_in_country - rounding_limit)
\* get_foil_price line 461
Undercut(rounding_limit, median_guided, lowest_in_country) ==
    Max(rounding_limit, Min(median_guided, lowest_in_country - rounding_limit))

\* get_foil_price lines 452-464, for a product that has listings
foil_price(foil_articles, rounding_limit) ==
    LET median_price == calculate_median(foil_articles)
        lowest_price == calculate_lowest(foil_articles)
        median_guided == round_up_to_limit(rounding_limit,
                             lowest_price + (median_price - lowest_price) \div 4)
    IN  IF Len(local_articles(foil_articles)) > 0
        THEN LET lowest_in_country ==
                     round_down_to_limit(rounding_limit,
                                         calculate_lowest(local_articles(foil_articles)))
             IN  Undercut(rounding_limit, median_guided, lowest_in_country)
        ELSE round_up_to_limit(rounding_limit, (median_guided * 6) \div 5)

\* get_foil_price: the median of an empty table raises
get_foil_price ==
    /\ pricing = "ready"
    /\ IF listings = <<>>
       THEN pricing' = "raised" /\ price' = 0
       ELSE pricing' = "returned" /\ price' = foil_price(listings, step)
    /\ UNCHANGED <<listings, step>>
    /\ UNCHANGED <<fetchVars, priceVars, stockVars, writeVars>>

NoFetch ==
    /\ server = "any" /\ N = 0 /\ fn = "get_articles" /\ start0 = 0 /\ start = 0
    /\ pc = "done" /\ depth = 0 /\ acc = <<>> /\ outcome = "pending" /\ result = <<>>
    /\ nreq = 0 /\ nretry = 0
    /\ last = [start |-> None, resp |-> NoResponse] /\ prev = <<>>
    /\ uniform = [hdr |-> <<0, FALSE, 0>>, same |-> TRUE]

InitFoil ==
    /\ NoFetch /\ NoProduct /\ NoStock /\ NoWrite
    /\ pricing = "ready" /\ price = 0
    /\ step \in Steps
    /\ listings \in UNION { [1 .. n -> Articles] : n \in 0 .. MaxListings }

NextFoil == get_foil_price

SpecFoil == InitFoil /\ [][NextFoil]_vars

\* ------------------------------------------------------- product pricing
\* the rarity strings of products, and str.lower on them
Rarities == {"Rare", "rare", "RARE", "Mythic", "Token"}

Lower(str) ==
    CASE str \in {"Rare", "rare", "RARE"} -> "rare"
      [] str = "Mythic" -> "mythic"
      [] str = "Token" -> "token"

\* the configurations: 'default' is always present, rarities may be
ConfigKeys == {{"default"}, {"default", "rare"}, {"default", "rare", "mythic"}}
Configs == UNION { [keys -> Steps] : keys \in ConfigKeys }

\* trend prices, in half currency units
Trends == { (k * Unit) \div 2 : k \in 1 .. 2 * MaxPrice }

\* variant of the lookup below that does not lower-case the rarity
get_rounding_limit_for_rarity_exact(cfg, rar) ==
    IF rar \in DOMAIN cfg THEN cfg[rar] ELSE cfg["default"]
\* get_rounding_limit_for_rarity: the default, replaced by the entry of the
\* lower-cased rarity unless the lookup raises KeyError
get_rounding_limit_for_rarity(cfg, rar) ==
    IF Lower(rar) \in DOMAIN cfg THEN cfg[Lower(rar)] ELSE cfg["default"]

\* variant of the line below that keeps the trend price as it is
nonfoil_price_unrounded(rounding_limit, trend_price) == trend_price
\* get_price_for_product lines 392-394
nonfoil_price(rounding_limit, trend_price) == round_up_to_limit(rounding_limit, trend_price)

\* get_price_for_product.  A single-page read (get_product, get_account)
\* returns None when the request failed, and subscripting None raises
\* TypeError; get_foil_price raises on a product without listings.
get_price_for_product ==
    /\ pricing = "ready"
    /\ step' = get_rounding_limit_for_rarity(config, rarity)
    /\ IF ~is_foil
       THEN /\ calls' = <<"get_product">>
            /\ IF gateway = "down"
               THEN pricing' = "raised" /\ price' = 0
               ELSE pricing' = "returned" /\ price' = nonfoil_price(step', trend)
       ELSE IF gateway = "down"
            THEN calls' = <<"get_account">> /\ pricing' = "raised" /\ price' = 0
            ELSE /\ calls' = <<"get_account", "get_articles">>
                 /\ IF listings = <<>>
                    THEN pricing' = "raised" /\ price' = 0
                    ELSE pricing' = "returned" /\ price' = foil_price(listings, step')
    /\ UNCHANGED <<listings, config, rarity, is_foil, trend, gateway>>
    /\ UNCHANGED <<fetchVars, stockVars, writeVars>>

\* a product with at most one foil listing; a non-foil product has no listings read
InitProduct ==
    /\ NoFetch /\ NoStock /\ NoWrite
    /\ pricing = "ready" /\ price = 0 /\ step = 0 /\ calls = <<>>
    /\ config \in Configs /\ rarity \in Rarities
    /\ gateway \in {"up", "down"}
    /\ is_foil \in BOOLEAN
    /\ IF is_foil
       THEN trend = 0 /\ listings \in UNION { [1 .. n -> Articles] : n \in 0 .. 1 }
       ELSE trend \in Trends /\ listings = <<>>

NextProduct == get_price_for_product

SpecProduct == InitProduct /\ [][NextProduct]_vars

\* ---------------------------------------------------------- batch writes
\* records of a chunk (add_stock, set_stock, delete_stock: __chunks(payload, 100))
chunk_size == 100

\* A value of an entry: its Python type and its text.  A number, or a string
\* of digits, has the text "digits" and the number itself in n.
Val(t, s, n) == [t |-> t, s |-> s, n |-> n]

\* str(value)
Str(value) == Val("str", value.s, value.n)

\* str.lower(text)
str_lower(value) ==
    [value EXCEPT !.s = CASE value.s = "True" -> "true"
                          [] value.s = "False" -> "false"
                          [] value.s = "Foil" -> "foil"
                          [] OTHER -> value.s]

\* add_stock lines 323-327
add_stock_clean(entry) ==
    [key \in DOMAIN entry |->
        LET lower_value == str_lower(Str(entry[key]))
        IN  IF lower_value.s = "true" \/ lower_value.s = "false"
            THEN lower_value ELSE entry[key]]

\* set_stock lines 346-348
set_stock_clean(entry) ==
    [key \in DOMAIN entry |-> str_lower(Str(entry[key]))]

\* delete_stock leaves the entries as they are
delete_stock_clean(entry) == entry

\* variant of __chunks that yields the full chunks only
chunks_full(l, n) ==
    [k \in 1 .. Len(l) \div n |-> SubSeq(l, (k - 1) * n + 1, k * n)]
\* __chunks: l[i : i + n] for i in range(0, len(l), n)
chunks(l, n) ==
    [k \in 1 .. (Len(l) + n - 1) \div n |->
        SubSeq(l, (k - 1) * n + 1, Min(k * n, Len(l)))]

\* variant of the line below that takes the first failure response, if any
handled_first_failure(responses) ==
    IF \E k \in 1 .. Len(responses) : responses[k].status >= bad_request
    THEN responses[CHOOSE k \in 1 .. Len(responses) :
                      /\ responses[k].status >= bad_request
                      /\ \A j \in 1 .. k - 1 : responses[j].status < bad_request]
    ELSE responses[Len(responses)]
\* the response given to __handle_response after the loop: r, the last one assigned
handled(responses) == responses[Len(responses)]

\* `if self.__handle_response(r): return r.json()`
WriteOutcome(r) ==
    CASE handle_response(r) = "True" -> "json"
      [] handle_response(r) = "False" -> "None"
      [] OTHER -> handle_response(r)

\* a batch write: the first step stores the cleaned payload and chunks it;
\* every later step sends the next chunk and waits for its response, and
\* after the last chunk hands r to __handle_response.  With no chunk, r was
\* never assigned.
BatchWrite(f, cleaned) ==
    /\ wfn = f
    /\ IF woutcome = "called"
       THEN /\ payload' = cleaned
            /\ chunked_list' = chunks(payload', chunk_size)
            /\ woutcome' = IF chunked_list' = <<>> THEN "UnboundLocalError" ELSE "pending"
            /\ sent' = sent
       ELSE /\ woutcome = "pending"
            /\ \E st \in Statuses :
                  LET chunk == chunked_list[Len(sent) + 1]
                  IN  /\ sent' = Append(sent, [data |-> chunk, status |-> st])
                      /\ woutcome' = IF Len(sent') = Len(chunked_list)
                                     THEN WriteOutcome(handled(sent'))
                                     ELSE "pending"
            /\ UNCHANGED <<payload, chunked_list>>
    /\ UNCHANGED <<wfn, payload0>>
    /\ UNCHANGED <<fetchVars, foilVars, priceVars, stockVars>>

add_stock ==
    BatchWrite("add_stock", [i \in 1 .. Len(payload) |-> add_stock_clean(payload[i])])
set_stock ==
    BatchWrite("set_stock", [i \in 1 .. Len(payload) |-> set_stock_clean(payload[i])])
delete_stock ==
    BatchWrite("delete_stock", [i \in 1 .. Len(payload) |-> delete_stock_clean(payload[i])])

\* the values of an entry's isFoil: a bool, a string of a bool, another string
FlagValues == {Val("bool", "True", 0), Val("str", "False", 0), Val("str", "Foil", 0)}

Sizes == { k * chunk_size + d : k \in 0 .. MaxChunks, d \in {0, 1} }

InitWrite ==
    /\ NoFetch /\ NoFoil /\ NoProduct /\ NoStock
    /\ wfn \in {"add_stock", "set_stock", "delete_stock"}
    /\ \E n \in Sizes, flag \in FlagValues :
          payload0 = [i \in 1 .. n |-> [idArticle |-> Val("int", "digits", i), isFoil |-> flag]]
    /\ payload = payload0
    /\ chunked_list = <<>> /\ sent = <<>> /\ woutcome = "called"

NextWrite == add_stock \/ set_stock \/ delete_stock

SpecWrite == InitWrite /\ [][NextWrite]_vars

\* ------------------------------------------------------------ repricing
\* A stock entry carries, besides its own fields, what pricing it will give:
\* `quote`, the price get_price_for_product returns for its product, or
\* `fails`, when get_price_for_product raises, and then `failsAt`, the read
\* at which it does: get_product (no product), get_account (no account) or
\* get_articles (the listings cannot be read, or there is none to price from).
Quotes == { k * Unit : k \in 1 .. MaxQuote }
FailurePoints(isFoil) == IF isFoil THEN {"get_account", "get_articles"} ELSE {"get_product"}
Entries ==
    { e \in [price : Quotes, isFoil : BOOLEAN, isSigned : BOOLEAN,
             quote : Quotes \cup {0}, fails : BOOLEAN,
             failsAt : {"none", "get_product", "get_account", "get_articles"}] :
        /\ e.fails <=> e.quote = 0
        /\ IF e.fails THEN e.failsAt \in FailurePoints(e.isFoil) ELSE e.failsAt = "none" }

\* the Gateway reads of one get_price_for_product: get_product for a
\* non-foil; for a foil get_account and, when that gave the account, get_articles
PricingReads(article) ==
    IF ~article.isFoil THEN <<"get_product">>
    ELSE IF article.failsAt = "get_account" THEN <<"get_account">>
    ELSE <<"get_account", "get_articles">>

\* a number, and a bool, as values of a dict
Num(t, n) == Val(t, "digits", n)
Bool(b) == Val("bool", IF b THEN "True" ELSE "False", 0)

NoChange == [idArticle |-> Num("int", 0)]

\* variant of the function below that reports a change for every entry
get_price_for_single_article_always(id, article) ==
    [idArticle |-> Num("int", id), foil |-> Bool(article.isFoil),
     old_price |-> Num("float", article.price), price |-> Num("float", article.quote),
     price_diff |-> Num("float", article.quote - article.price)]
\* get_price_for_single_article, for an entry whose pricing does not raise:
\* the PriceChange, or None (NoChange).  The test of isSigned is `or True`.
get_price_for_single_article(id, article) ==
    IF ~article.isSigned \/ TRUE
    THEN LET new_price == article.quote
             price_diff == new_price - article.price
         IN  IF price_diff # 0
             THEN [idArticle |-> Num("int", id), foil |-> Bool(article.isFoil),
                   old_price |-> Num("float", article.price),
                   price |-> Num("float", new_price),
                   price_diff |-> Num("float", price_diff)]
             ELSE NoChange
    ELSE NoChange

\* variant of the lines below that always counts the entry's existing price
TotalAdd_old(article, updated_article) == article.price
\* calculate_new_prices_for_stock lines 346-350
TotalAdd(article, updated_article) ==
    IF updated_article # NoChange THEN updated_article.price.n ELSE article.price

\* calculate_new_prices_for_stock: one turn of the loop over stock_list, or
\* the return of result_json after the last.  An exception of
\* get_price_for_single_article is not caught and ends the call.
calculate_new_prices_for_stock ==
    /\ rphase = "loop"
    /\ IF index = Len(stock)
       THEN /\ rphase' = "returned"
            /\ UNCHANGED <<index, result_json, total_price, gw>>
       ELSE LET article == stock[index + 1]
                updated_article == get_price_for_single_article(index + 1, article)
            IN  /\ gw' = gw \o PricingReads(article)
                /\ IF article.fails
                   THEN /\ rphase' = "raised"
                        /\ UNCHANGED <<index, result_json, total_price>>
                   ELSE /\ result_json' = IF updated_article # NoChange
                                          THEN Append(result_json, updated_article)
                                          ELSE result_json
                        /\ total_price' = total_price + TotalAdd(article, updated_article)
                        /\ index' = index + 1
                        /\ rphase' = "loop"
    /\ UNCHANGED <<stock, answer>>
    /\ UNCHANGED <<fetchVars, foilVars, priceVars, writeVars>>

\* variant of the test below that takes any answer for a yes
Confirmed_any(prompt_bool) == TRUE
\* update_stock_prices_to_trend line 83
Confirmed(prompt_bool) == prompt_bool = TRUE

\* a whole call f(list) of a batch write, the chunks answered with the
\* statuses sts: the list is left cleaned, every chunk is sent, and the call
\* ends as __handle_response makes of the last response
CallWrite(f, list, cleaned, sts) ==
    /\ wfn' = f
    /\ payload0' = list
    /\ payload' = cleaned
    /\ chunked_list' = chunks(cleaned, chunk_size)
    /\ sent' = [k \in 1 .. Len(chunked_list') |-> [data |-> chunked_list'[k], status |-> sts[k]]]
    /\ woutcome' = IF chunked_list' = <<>> THEN "UnboundLocalError"
                   ELSE WriteOutcome(handled(sent'))

\* the write returned (a body, or None) and did not raise
Returned(ended) == ended \in {"json", "None"}

\* update_stock_prices_to_trend, after calculate_new_prices_for_stock
\* returned.  api.set_stock(uploadable_json) cleans the entries of the
\* change-set in place, and what it raises leaves the function.
update_stock_prices_to_trend ==
    /\ rphase = "returned"
    /\ IF Len(result_json) > 0
       THEN \E prompt_bool \in BOOLEAN :
              /\ answer' = IF prompt_bool THEN "yes" ELSE "no"
              /\ IF Confirmed(prompt_bool)
                 THEN /\ gw' = Append(gw, "set_stock")
                      /\ \E sts \in [1 .. Len(chunks(result_json, chunk_size)) -> Statuses] :
                            CallWrite("set_stock", result_json,
                                      [i \in 1 .. Len(result_json) |-> set_stock_clean(result_json[i])],
                                      sts)
                      /\ result_json' = payload'
                      /\ rphase' = IF Returned(woutcome') THEN "updated" ELSE "failed"
                 ELSE /\ gw' = gw /\ rphase' = "declined"
                      /\ UNCHANGED <<result_json, writeVars>>
       ELSE /\ answer' = answer /\ gw' = gw /\ rphase' = "nothing"
            /\ UNCHANGED <<result_json, writeVars>>
    /\ UNCHANGED <<stock, index, total_price>>
    /\ UNCHANGED <<fetchVars, foilVars, priceVars>>

\* update_product_to_trend: the whole command.  The search is answered with
\* the status st; only OK gives articles (here: the stock's), any other
\* status ends in an exception of find_stock_article, which is printed, and
\* then `articles` is unbound.  Of several articles the user chooses one (a
\* number of the list).  The change is kept in result_json as the list [r].
update_product_to_trend ==
    /\ rphase = "product"
    /\ \E st \in Statuses :
          IF st # ok
          THEN /\ gw' = Append(gw, "find_stock_article")
               /\ rphase' = "product_raised"
               /\ UNCHANGED <<result_json, answer, writeVars>>
          ELSE IF Len(stock) = 0
          THEN /\ gw' = Append(gw, "find_stock_article")
               /\ rphase' = "product_raised"
               /\ UNCHANGED <<result_json, answer, writeVars>>
          ELSE \E choice \in 1 .. Len(stock) :
                 LET article == stock[choice]
                     r == get_price_for_single_article(choice, article)
                     reads == Append(gw, "find_stock_article") \o PricingReads(article)
                 IN  IF article.fails
                     THEN /\ gw' = reads
                          /\ rphase' = "product_raised"
                          /\ UNCHANGED <<result_json, answer, writeVars>>
                     ELSE IF r = NoChange
                     THEN /\ gw' = reads
                          /\ rphase' = "product_nothing"
                          /\ UNCHANGED <<result_json, answer, writeVars>>
                     ELSE \E prompt_bool \in BOOLEAN :
                            /\ answer' = IF prompt_bool THEN "yes" ELSE "no"
                            /\ IF Confirmed(prompt_bool)
                               THEN /\ gw' = Append(reads, "set_stock")
                                    /\ \E sts \in [1 .. 1 -> Statuses] :
                                          CallWrite("set_stock", <<r>>, <<set_stock_clean(r)>>, sts)
                                    /\ result_json' = payload'
                                    /\ rphase' = IF Returned(woutcome')
                                                 THEN "product_updated" ELSE "product_failed"
                               ELSE /\ gw' = reads
                                    /\ result_json' = <<r>>
                                    /\ rphase' = "product_declined"
                                    /\ UNCHANGED writeVars
    /\ UNCHANGED <<stock, index, total_price>>
    /\ UNCHANGED <<fetchVars, foilVars, priceVars>>

\* clear_entire_stock: the whole command, after get_stock_as_array.  The
\* delete_list has the count and the idArticle of every entry of the stock.
clear_entire_stock ==
    /\ rphase = "clear"
    /\ \E prompt_bool \in BOOLEAN :
          /\ answer' = IF prompt_bool THEN "yes" ELSE "no"
          /\ IF Confirmed(prompt_bool)
             THEN LET delete_list == [i \in 1 .. Len(stock) |->
                                        [count |-> Num("int", 1), idArticle |-> Num("int", i)]]
                  IN  /\ gw' = Append(gw, "delete_stock")
                      /\ \E sts \in [1 .. Len(chunks(delete_list, chunk_size)) -> Statuses] :
                            CallWrite("delete_stock", delete_list,
                                      [i \in 1 .. Len(delete_list) |-> delete_stock_clean(delete_list[i])],
                                      sts)
                      /\ rphase' = IF Returned(woutcome') THEN "cleared" ELSE "clear_raised"
             ELSE /\ gw' = gw /\ rphase' = "aborted"
                  /\ UNCHANGED writeVars
    /\ UNCHANGED <<stock, index, result_json, total_price>>
    /\ UNCHANGED <<fetchVars, foilVars, priceVars>>

\* the commands that read the whole stock start with the stock read by
\* get_stock_as_array; update_product_to_trend starts with no read made
InitReprice ==
    /\ NoFetch /\ NoFoil /\ NoProduct /\ NoWrite
    /\ stock \in UNION { [1 .. n -> Entries] : n \in 0 .. MaxStock }
    /\ index = 0 /\ result_json = <<>> /\ total_price = 0
    /\ rphase \in {"loop", "clear", "product"}
    /\ answer = "none"
    /\ gw = IF rphase = "product" THEN <<>> ELSE <<"get_stock">>

NextReprice ==
    \/ calculate_new_prices_for_stock
    \/ update_stock_prices_to_trend
    \/ update_product_to_trend
    \/ clear_entire_stock

SpecReprice == InitReprice /\ [][NextReprice]_vars

\* ------------------------------------------------------------- properties
Records(n) == [i \in 1 .. n |-> i]
IsStock == fn \in {"get_stock", "get_orders"}

\* C1: against the paged server, get_articles and find_user_articles called
\* at offset 0 return the N records of the resource, each once and in the
\* server's order, and the fetch is never left unfinished
C1_AllArticles ==
    (server = "paged" /\ ~IsStock /\ start0 = 0) =>
        /\ pc = "done" => outcome = "list" /\ result = Records(N)
        /\ pc = "call" => nreq < MaxRequests /\ outcome = "pending"

C1_Witness ==
    /\ server = "paged" /\ fn = "find_user_articles" /\ pc = "done"
    /\ N > 2 * INCREMENT /\ nreq = 3 /\ Len(result) = N

\* C2: get_stock called without offset, redirected on its first request and
\* then served pages of 100 at offsets 1, 101, ... with the total N, returns
\* the N stock records, each once and in the server's order
C2_AllStock ==
    (server = "paged" /\ fn = "get_stock" /\ start0 = None) =>
        /\ pc = "done" => outcome = "list" /\ result = Records(N) /\ nretry = 1
        /\ pc = "call" => nreq < MaxRequests /\ outcome = "pending"

C2_Witness ==
    /\ server = "paged" /\ fn = "get_stock" /\ start0 = None /\ pc = "done"
    /\ N > 2 * STOCK_INCREMENT /\ last.start = 3 * STOCK_INCREMENT + 1 /\ Len(result) = N

\* C3: a Partial content response at offset o (0 for a first request without
\* offset) with total T is appended, and the next request, at o + page size,
\* is sent exactly when o + page size < T; otherwise the fetch returns
C3_NextIffBelowTotal ==
    (nreq > 0 /\ last.resp.status = partial_content /\ last.resp.hasRange) =>
        LET o == IF last.start = None THEN 0 ELSE last.start
        IN  IF o + PageSize(fn) < last.resp.total
            THEN pc = "call" /\ start = o + PageSize(fn) /\ acc = prev \o last.resp.body
            ELSE pc = "done" /\ outcome = "list" /\ result = prev \o last.resp.body

\* C4: an OK response without Content-Range ends the fetch, and its records
\* are returned (after the pages already fetched), none discarded
C4_OkBodyReturned ==
    (nreq > 0 /\ last.resp.status = ok /\ ~last.resp.hasRange) =>
        pc = "done" /\ outcome \in {"list", "json"} /\ result = prev \o last.resp.body

\* C5: whatever the server answers, a fetch makes at most one retry because
\* of a Temporary redirect
C5_RetryAtMostOnce == nretry <= 1

\* C6: a No content response ends the fetch, which returns the records of the
\* earlier pages without raising
C6_NoContentReturnsAccumulated ==
    (nreq > 0 /\ last.resp.status = no_content) =>
        pc = "done" /\ outcome = "list" /\ result = prev

\* C7: a response declaring a total below the offset of its request ends the
\* fetch and adds none of its records to the result
C7_BeyondTotalAddsNothing ==
    (nreq > 0 /\ last.resp.hasRange /\ last.start # None /\ last.start > last.resp.total) =>
        pc = "done" /\ (outcome = "list" => result = prev)

\* C8: a response with any other status makes the fetch fail with the remote
\* error, never a normal result nor another error
RemoteErrors == {"ConnectionError", "CardmarketError"}

C8_OtherStatusRaises ==
    (nreq > 0 /\ last.resp.status \notin {ok, partial_content, temporary_redirect, no_content}) =>
        pc = "done" /\ outcome \in RemoteErrors

\* C9: when every response is Partial content with the same total T, the
\* fetch ends after at most T \div page size + 2 requests, whatever the
\* pages contain
AllPartial == nreq > 0 /\ uniform.same /\ uniform.hdr[1] = partial_content /\ uniform.hdr[2]

C9_PartialTerminates ==
    AllPartial =>
        LET most == uniform.hdr[3] \div PageSize(fn) + 2
        IN  /\ nreq <= most /\ most < MaxRequests
            /\ pc = "call" => nreq < most

C9_Witness ==
    /\ AllPartial /\ pc = "done" /\ outcome = "list"
    /\ nreq = MaxPages + 2 /\ result = <<>>


\* C10: with at least one local competing listing the foil price is
\* max(step, min(median_guided, lowest_in_country - step)): median_guided the
\* least multiple of step at or above lowest + (median - lowest)/4 over all
\* listings, lowest_in_country the greatest multiple of step at or below the
\* cheapest local price; so the price is a multiple of step, at least step
PriceSet(table) == { table[i].price : i \in 1 .. Len(table) }
Least(S) == CHOOSE x \in S : \A y \in S : x <= y
Multiples(limit, upto) == { k * limit : k \in 0 .. upto \div limit + 1 }

C10_FoilLocalPrice ==
    (pricing = "returned" /\ \E i \in 1 .. Len(listings) : IsLocal(listings[i])) =>
        LET lowest == Least(PriceSet(listings))
            guide == lowest + (calculate_median(listings) - lowest) \div 4
            guided == Least({m \in Multiples(step, guide) : m >= guide})
            cheapest == Least(PriceSet(SelectSeq(listings, IsLocal)))
            in_country == cheapest - (cheapest % step)
            undercut == IF guided < in_country - step THEN guided ELSE in_country - step
        IN  /\ price = (IF undercut > step THEN undercut ELSE step)
            /\ price % step = 0
            /\ price >= step

\* the undercut of the cheapest local seller falls below the floor, which applies
C10_Witness ==
    /\ pricing = "returned" /\ Len(listings) = MaxListings
    /\ \E i \in 1 .. Len(listings) : IsLocal(listings[i]) /\ listings[i].price < step
    /\ \E i \in 1 .. Len(listings) : ~IsLocal(listings[i])
    /\ price = step

\* the listings that compete locally, spelled out: sold from the account's
\* country by somebody else
Competitors == { i \in 1 .. Len(listings) :
                    listings[i].country = account.country
                    /\ listings[i].seller # account.username }
CheapestLocal == Least({ listings[i].price : i \in Competitors })

\* C11 as claimed: with a local competing listing the foil price is strictly
\* below the cheapest local price
C11_AlwaysUndercuts ==
    (pricing = "returned" /\ Competitors # {}) => price < CheapestLocal

\* C11 as amended: the foil price is strictly below the cheapest local price
\* whenever that price is above the rounding step; when it is not, the
\* price is the floor of one step, which is not below the cheapest local price
C11_UndercutsAboveFloor ==
    (pricing = "returned" /\ Competitors # {}) =>
        IF CheapestLocal > step THEN price < CheapestLocal
        ELSE price = step /\ price >= CheapestLocal

C11_Witness ==
    /\ pricing = "returned" /\ Competitors # {}
    /\ CheapestLocal > step
    /\ price > step /\ price = CheapestLocal - step

\* C12: a listing is local competition exactly when it is sold from the
\* account's country by another seller; without any such listing (own
\* listings in the country included) the foil price is median_guided * 1.2
\* rounded up to the step, median and lowest taken over all listings
C12_NoLocalPrice ==
    (pricing = "returned" /\ Competitors = {}) =>
        LET lowest == Least(PriceSet(listings))
            guide == lowest + (calculate_median(listings) - lowest) \div 4
            guided == Least({m \in Multiples(step, guide) : m >= guide})
            raised == (guided * 6) \div 5
        IN  /\ (guided * 6) % 5 = 0
            /\ price = Least({m \in Multiples(step, raised) : m >= raised})

\* the only listing of the account's country is the account's own
C12_Witness ==
    /\ pricing = "returned" /\ Competitors = {}
    /\ \E i \in 1 .. Len(listings) :
          listings[i].country = account.country /\ listings[i].seller = account.username
    /\ \E i \in 1 .. Len(listings) : listings[i].country # account.country
    /\ price % step = 0 /\ price > step

\* C13: for a non-foil product get_price_for_product returns the least
\* multiple of the rarity's step at or above the trend price, the trend price
\* itself when it is a multiple, and reads no competitor listings
C13_NonFoilRoundsUp ==
    (pricing = "returned" /\ ~is_foil) =>
        /\ price % step = 0 /\ price >= trend /\ price - step < trend
        /\ (trend % step = 0 => price = trend)
        /\ calls = <<"get_product">>

C13_Witness ==
    /\ pricing = "returned" /\ ~is_foil
    /\ trend % step # 0 /\ trend > step /\ price > trend

\* C14: the rounding step is the entry of the lower-cased rarity in
\* price_limit_by_rarity, and the 'default' entry for a rarity that has none;
\* no error is raised for it, so the pricing goes on to return a price
KnownRarity ==
    \/ rarity \in {"Rare", "rare", "RARE"} /\ "rare" \in DOMAIN config
    \/ rarity = "Mythic" /\ "mythic" \in DOMAIN config

C14_RarityStep ==
    pricing \in {"returned", "raised"} =>
        /\ step = IF rarity \in {"Rare", "rare", "RARE"} /\ "rare" \in DOMAIN config
                  THEN config["rare"]
                  ELSE IF rarity = "Mythic" /\ "mythic" \in DOMAIN config
                       THEN config["mythic"]
                       ELSE config["default"]
        /\ (~KnownRarity /\ gateway = "up" /\ (is_foil => listings # <<>>))
               => pricing = "returned"

C14_Witness ==
    /\ pricing = "returned" /\ rarity = "Token" /\ ~is_foil
    /\ DOMAIN config = {"default", "rare", "mythic"}
    /\ config["default"] # config["rare"] /\ config["default"] # config["mythic"]
    /\ step = config["default"]

\* ------------------------------------------------- properties: repricing
GatewayWrites == {"add_stock", "set_stock", "delete_stock"}

\* the writes among the Gateway operations invoked so far
Writes == SelectSeq(gw, LAMBDA op : op \in GatewayWrites)

RECURSIVE SumTo(_, _)
SumTo(f(_), n) == IF n = 0 THEN 0 ELSE f(n) + SumTo(f, n - 1)

\* the entries of the stock whose pricing gives a price other than their own
Changed == { i \in 1 .. Len(stock) : ~stock[i].fails /\ stock[i].quote # stock[i].price }

\* the pass has ended, with or without a result
PassEnded == rphase \in {"returned", "raised", "updated", "failed", "declined", "nothing"}

\* C15: an entry whose pricing fails is skipped and the pass continues: the
\* pass ends by returning, with every entry processed and a PriceChange for
\* each entry that priced to another price
C15_FailedItemSkipped ==
    PassEnded =>
        /\ rphase # "raised"
        /\ index = Len(stock)
        /\ { result_json[k].idArticle.n : k \in 1 .. Len(result_json) } = Changed

\* C16: the returned change-set holds, in stock order, exactly one PriceChange
\* for each entry whose new price differs from its price and none for the
\* others, each with the entry's id, old price, new price and their
\* difference, which is not 0
C16_ChangeSetExact ==
    rphase = "returned" =>
        /\ { result_json[k].idArticle.n : k \in 1 .. Len(result_json) } = Changed
        /\ Len(result_json) = Cardinality(Changed)
        /\ \A k \in 1 .. Len(result_json) - 1 :
              result_json[k].idArticle.n < result_json[k + 1].idArticle.n
        /\ \A k \in 1 .. Len(result_json) :
              LET change == result_json[k]
                  article == stock[change.idArticle.n]
              IN  /\ change.idArticle = Num("int", change.idArticle.n)
                  /\ change.old_price = Num("float", article.price)
                  /\ change.price = Num("float", article.quote)
                  /\ change.price_diff = Num("float", change.price.n - change.old_price.n)
                  /\ change.price_diff.n # 0

\* a stock with a changed and an unchanged entry was priced to the end
C16_Witness ==
    /\ rphase = "returned"
    /\ Changed # {}
    /\ \E i \in 1 .. Len(stock) : stock[i].quote = stock[i].price

\* the one price an entry adds to the total: the new price of its
\* PriceChange, or its own price when it has none
Counted(i) ==
    IF \E k \in 1 .. Len(result_json) : result_json[k].idArticle.n = i
    THEN (CHOOSE c \in { result_json[k] : k \in 1 .. Len(result_json) } :
              c.idArticle.n = i).price.n
    ELSE stock[i].price

NewPrice(i) == stock[i].quote

\* C17: after any prefix of the stock the total is the sum, over the processed
\* entries, of the new price of a changed entry and the own price of an
\* unchanged one; at the return it is the sum of all entries' new prices
C17_TotalIsSumOfPrices ==
    /\ rphase # "none" => total_price = SumTo(Counted, index)
    /\ rphase = "returned" =>
          index = Len(stock) /\ total_price = SumTo(NewPrice, Len(stock))

\* two entries are processed, one changed to a price other than its own
C17_Witness ==
    /\ rphase = "loop" /\ index >= 2
    /\ \E i \in 1 .. index : i \in Changed
    /\ \E i \in 1 .. index : i \notin Changed

\* update_stock_prices_to_trend is the command that runs, or ran
Updating ==
    rphase \in {"loop", "returned", "raised", "updated", "failed", "declined", "nothing"}

\* C18: no write is issued while the change-set is computed; set_stock is
\* issued at most once, only for a non-empty change-set and after a yes; a no
\* or an empty change-set issues no write
C18_WriteOnlyOnYes ==
    Updating =>
        /\ rphase \in {"loop", "returned", "raised"} => Writes = <<>> /\ sent = <<>>
        /\ Len(Writes) <= 1
        /\ Writes # <<>> =>
              /\ Writes = <<"set_stock">>
              /\ rphase \in {"updated", "failed"} /\ answer = "yes" /\ Len(result_json) > 0
        /\ rphase \in {"declined", "nothing"} => Writes = <<>> /\ sent = <<>>
        /\ rphase = "nothing" => answer = "none" /\ result_json = <<>>
        /\ rphase = "declined" => answer = "no"

\* the user declined a non-empty change-set
C18_Witness == rphase = "declined" /\ Len(result_json) > 0 /\ Len(gw) > 1

\* --------------------------------------------- properties: batch writes
RECURSIVE Concat(_)
Concat(seqs) == IF seqs = <<>> THEN <<>> ELSE Head(seqs) \o Concat(Tail(seqs))

\* the data of the requests made, in the order they were made
Submitted == [k \in 1 .. Len(sent) |-> sent[k].data]

\* the call has ended, by a return or by an exception
WriteEnded == woutcome \notin {"none", "called", "pending"}

\* C19: a payload of n >= 1 records is sent as ceil(n/100) requests of at
\* most 100 records each, in payload order: at any moment the requests made
\* are the first chunks of the payload, and at the end their concatenation is
\* the payload, each of the caller's records once and in the caller's order
C19_ChunksCoverPayload ==
    (Len(payload0) >= 1 /\ woutcome # "called") =>
        /\ \A k \in 1 .. Len(sent) :
              /\ Len(sent[k].data) >= 1 /\ Len(sent[k].data) <= chunk_size
              /\ sent[k].data = SubSeq(payload, (k - 1) * chunk_size + 1,
                                       (k - 1) * chunk_size + Len(sent[k].data))
        /\ woutcome = "pending" => Len(sent) * chunk_size < Len(payload0)
        /\ WriteEnded =>
              /\ Len(sent) * chunk_size >= Len(payload0)
              /\ (Len(sent) - 1) * chunk_size < Len(payload0)
              /\ Concat(Submitted) = payload
              /\ Len(payload) = Len(payload0)
              /\ \A i \in 1 .. Len(payload) : payload[i].idArticle.n = payload0[i].idArticle.n

\* a payload of two full chunks and one record more was sent
C19_Witness ==
    /\ WriteEnded /\ Len(payload0) = MaxChunks * chunk_size + 1
    /\ Len(sent) = MaxChunks + 1 /\ Len(sent[Len(sent)].data) = 1

\* C20: a write of two or more chunks ends only after every chunk was sent
\* once, whatever the earlier responses were, and its outcome is what
\* __handle_response makes of the last response alone
C20_LastResponseDecides ==
    Len(chunked_list) >= 2 =>
        /\ Len(sent) <= Len(chunked_list)
        /\ \A k \in 1 .. Len(sent) : sent[k].data = chunked_list[k]
        /\ Len(sent) < Len(chunked_list) => woutcome = "pending"
        /\ Len(sent) = Len(chunked_list) =>
              woutcome = WriteOutcome(Response(sent[Len(sent)].status, FALSE, 0, <<>>))

\* the first chunk was refused, the last accepted, and the call returned the body
C20_Witness ==
    /\ Len(chunked_list) >= 2 /\ Len(sent) = Len(chunked_list)
    /\ sent[1].status = bad_request /\ sent[Len(sent)].status = ok
    /\ woutcome = "json"

\* ------------------------------------- properties: signed cards, empty batch
\* C21: a signed entry is never repriced: it has no PriceChange in the
\* change-set, and once processed it counts with its own price in the total
C21_SignedPriceKept ==
    rphase # "none" =>
        /\ \A k \in 1 .. Len(result_json) : ~stock[result_json[k].idArticle.n].isSigned
        /\ \A i \in 1 .. index : stock[i].isSigned => Counted(i) = stock[i].price

\* C22: a batch write of an empty payload sends no request and ends
\* without raising
C22_EmptyPayloadCompletes ==
    (Len(payload0) = 0 /\ WriteEnded) =>
        /\ sent = <<>>
        /\ woutcome \in {"json", "None"}

====
